---------------------------- MODULE Spec2Model ----------------------------
(***************************************************************************)
(* Screw motion (rod.ipynb): the dual-number algebra, the dual Rodrigues   *)
(* rotator, the quaternion algebra and the Rodrigues-Hamilton rotator.     *)
(*                                                                         *)
(* Numbers.  A float64 is modelled as a pair <<n, d>>: a reduced fraction  *)
(* n/d with d > 0, or one of the IEEE special values <<0,0>> (NaN),        *)
(* <<1,0>> (+Inf), <<-1,0>> (-Inf).  Arithmetic on finite values is exact  *)
(* (rounding is abstracted); division by zero and the propagation of NaN   *)
(* and Inf follow IEEE 754 as numpy applies it (a RuntimeWarning, never an *)
(* exception).                                                             *)
(*                                                                         *)
(* Angles.  An angle is <<i, h>>: the i-th entry of a table of angles in   *)
(* [0, 2*pi], divided by h (1 or 2).  np.cos and np.sin are table lookups; *)
(* the table holds the angles whose sine and cosine, and those of their    *)
(* half, are rational.                                                     *)
(*                                                                         *)
(* Arrays.  The caller's numpy arrays live in a heap, arrays; a call is    *)
(* handed references into it, so that in-place operations of the callee    *)
(* are visible to the caller and to later calls.                           *)
(***************************************************************************)
EXTENDS Integers, Sequences, FiniteSets

VARIABLES arrays, orig, pre, op, args, ret, raised, objs

vars == <<arrays, orig, pre, op, args, ret, raised, objs>>

-----------------------------------------------------------------------------
(* Bounds of the model *)

\* displacements (theta_dual / d) range over -MaxDisp .. MaxDisp
MaxDisp == 1

-----------------------------------------------------------------------------
(* float64 arithmetic *)

Abs(n) == IF n < 0 THEN -n ELSE n

Sgn(n) == IF n < 0 THEN -1 ELSE IF n > 0 THEN 1 ELSE 0

RECURSIVE Gcd(_, _)
Gcd(m, n) == IF n = 0 THEN m ELSE Gcd(n, m % n)

NaN == <<0, 0>>

Inf(s) == <<s, 0>>

IsNaN(x) == x[1] = 0 /\ x[2] = 0

IsInf(x) == x[1] # 0 /\ x[2] = 0

IsFin(x) == x[2] > 0

\* the reduced fraction n/d, d # 0
Frac(n, d) ==
    LET g == Gcd(Abs(n), Abs(d))
        s == IF d < 0 THEN -1 ELSE 1
    IN  <<s * (n \div g), s * (d \div g)>>

F(n) == <<n, 1>>

FNeg(x) == <<-x[1], x[2]>>

FAdd(x, y) ==
    IF IsNaN(x) \/ IsNaN(y) THEN NaN
    ELSE IF IsInf(x) /\ IsInf(y) THEN (IF x[1] = y[1] THEN x ELSE NaN)
    ELSE IF IsInf(x) THEN x
    ELSE IF IsInf(y) THEN y
    ELSE Frac(x[1] * y[2] + y[1] * x[2], x[2] * y[2])

FSub(x, y) == FAdd(x, FNeg(y))

FMul(x, y) ==
    IF IsNaN(x) \/ IsNaN(y) THEN NaN
    ELSE IF IsInf(x) \/ IsInf(y)
         THEN (IF x[1] = 0 \/ y[1] = 0 THEN NaN ELSE Inf(Sgn(x[1]) * Sgn(y[1])))
    ELSE Frac(x[1] * y[1], x[2] * y[2])

\* numpy true division: x / 0 is NaN or +-Inf, never an exception
FDiv(x, y) ==
    IF IsNaN(x) \/ IsNaN(y) THEN NaN
    ELSE IF IsInf(y) THEN (IF IsInf(x) THEN NaN ELSE F(0))
    ELSE IF y[1] = 0 THEN (IF x[1] = 0 THEN NaN ELSE Inf(Sgn(x[1])))
    ELSE IF IsInf(x) THEN Inf(Sgn(x[1]) * Sgn(y[1]))
    ELSE Frac(x[1] * y[2], x[2] * y[1])

IsSquare(n) == \E r \in 0..n : r * r = n

ISqrt(n) == CHOOSE r \in 0..n : r * r = n

\* the inputs of the model have exact square roots
HasExactSqrt(x) == ~IsFin(x) \/ x[1] < 0 \/ (IsSquare(x[1]) /\ IsSquare(x[2]))

\* np.sqrt
FSqrt(x) ==
    IF IsNaN(x) THEN NaN
    ELSE IF IsInf(x) THEN (IF x[1] > 0 THEN x ELSE NaN)
    ELSE IF x[1] < 0 THEN NaN
    ELSE <<ISqrt(x[1]), ISqrt(x[2])>>

-----------------------------------------------------------------------------
(* np.cos, np.sin *)

\* <<cos t, sin t, cos t/2, sin t/2>> for the angles t of the table, as
\* numerators over 25; t runs from 0 to 2*pi.
AngleTable ==
    << << 25,   0,  25,  0>>,     \* t = 0
       <<  7,  24,  20, 15>>,     \* t = 2*atan(3/4)
       << -7,  24,  15, 20>>,     \* t = 2*atan(4/3)
       <<-25,   0,   0, 25>>,     \* t = pi
       << -7, -24, -15, 20>>,     \* t = 2*pi - 2*atan(4/3)
       << 25,   0, -25,  0>> >>   \* t = 2*pi

Thetas == {<<i, 1>> : i \in 1..Len(AngleTable)}

\* theta / 2
HalfAngle(t) == <<t[1], 2 * t[2]>>

NpCos(t) == Frac(AngleTable[t[1]][IF t[2] = 1 THEN 1 ELSE 3], 25)

NpSin(t) == Frac(AngleTable[t[1]][IF t[2] = 1 THEN 2 ELSE 4], 25)

-----------------------------------------------------------------------------
(* numpy arrays of three floats *)

Vec(x, y, z) == <<F(x), F(y), F(z)>>

VAdd(u, w) == [i \in 1..3 |-> FAdd(u[i], w[i])]

VSub(u, w) == [i \in 1..3 |-> FSub(u[i], w[i])]

\* scalar * array
VScale(k, u) == [i \in 1..3 |-> FMul(k, u[i])]

\* array / scalar
VDiv(u, k) == [i \in 1..3 |-> FDiv(u[i], k)]

NpDot(u, w) == FAdd(FAdd(FMul(u[1], w[1]), FMul(u[2], w[2])), FMul(u[3], w[3]))

NpCross(u, w) ==
    << FSub(FMul(u[2], w[3]), FMul(u[3], w[2])),
       FSub(FMul(u[3], w[1]), FMul(u[1], w[3])),
       FSub(FMul(u[1], w[2]), FMul(u[2], w[1])) >>

\* np.linalg.norm
LinalgNorm(u) == FSqrt(NpDot(u, u))

-----------------------------------------------------------------------------
(* class DualNumber *)

DualNumber(real, dual) == [real |-> real, dual |-> dual]

\* A method call on objects yields the value returned and the fields of the
\* operands as the call leaves them.
DualNumber_add(self, other) ==
    [ self  |-> self,
      other |-> other,
      ret   |-> DualNumber(FAdd(self.real, other.real),
                           FAdd(self.dual, other.dual)) ]

\* slip: the dual * dual term is kept in the dual part
DualNumber_mul_KeepsDualSquare(self, other) ==
    [ self  |-> self,
      other |-> other,
      ret   |-> DualNumber(FMul(self.real, other.real),
                           FAdd(FAdd(FMul(self.real, other.dual),
                                     FMul(self.dual, other.real)),
                                FMul(self.dual, other.dual))) ]

DualNumber_mul(self, other) ==
    [ self  |-> self,
      other |-> other,
      ret   |-> DualNumber(FMul(self.real, other.real),
                           FAdd(FMul(self.real, other.dual),
                                FMul(self.dual, other.real))) ]

\* self.real is an angle here
DualNumber_sin(self) ==
    [ self |-> self,
      ret  |-> DualNumber(NpSin(self.real), FMul(self.dual, NpCos(self.real))) ]

DualNumber_cos(self) ==
    [ self |-> self,
      ret  |-> DualNumber(NpCos(self.real),
                          FMul(FNeg(self.dual), NpSin(self.real))) ]

-----------------------------------------------------------------------------
(* rodrigues_rotation *)

\* slip: (1 + cos(t)) in the axial term
RodriguesFormula_OnePlusCos(v, a, t) ==
    VAdd(VAdd(VScale(NpCos(t), v),
              VScale(NpSin(t), NpCross(a, v))),
         VScale(FAdd(F(1), NpCos(t)), VScale(NpDot(a, v), a)))

\* v * cos(t) + cross(a, v) * sin(t) + a * dot(a, v) * (1 - cos(t))
RodriguesFormula(v, a, t) ==
    VAdd(VAdd(VScale(NpCos(t), v),
              VScale(NpSin(t), NpCross(a, v))),
         VScale(FSub(F(1), NpCos(t)), VScale(NpDot(a, v), a)))

\* slip: the rotation is driven by theta_dual.cos() and theta_dual.sin() with
\* their dual parts added in
rodrigues_rotation_DualTrig(h, v, a, theta_dual) ==
    LET h1      == [h EXCEPT ![a] = VDiv(h[a], LinalgNorm(h[a]))]
        c       == DualNumber_cos(theta_dual).ret
        sn      == DualNumber_sin(theta_dual).ret
        cs      == FAdd(c.real, c.dual)
        ss      == FAdd(sn.real, sn.dual)
        v_rot   == VAdd(VAdd(VScale(cs, h1[v]),
                             VScale(ss, NpCross(h1[a], h1[v]))),
                        VScale(FSub(F(1), cs), VScale(NpDot(h1[a], h1[v]), h1[a])))
        v_screw == VAdd(v_rot, VScale(theta_dual.dual, h1[a]))
    IN  [heap |-> h1, ret |-> v_screw, raised |-> "none"]

\* h is the heap of arrays, v and a the references the caller passes.
\* "a /= np.linalg.norm(a)" divides the caller's array in place.
rodrigues_rotation(h, v, a, theta_dual) ==
    LET h1      == [h EXCEPT ![a] = VDiv(h[a], LinalgNorm(h[a]))]
        v_rot   == RodriguesFormula(h1[v], h1[a], theta_dual.real)
        v_screw == VAdd(v_rot, VScale(theta_dual.dual, h1[a]))
    IN  [heap |-> h1, ret |-> v_screw, raised |-> "none"]

-----------------------------------------------------------------------------
(* class Quaternion *)

Quaternion(lambda_0, lambda_1, lambda_2, lambda_3) ==
    [l_0 |-> lambda_0, l_1 |-> lambda_1, l_2 |-> lambda_2, l_3 |-> lambda_3]

Sq(x) == FMul(x, x)

QuatNormSq(q) == FAdd(FAdd(FAdd(Sq(q.l_0), Sq(q.l_1)), Sq(q.l_2)), Sq(q.l_3))

Quaternion_normalize(self) ==
    LET norm == FSqrt(QuatNormSq(self))
    IN  [ self   |-> self,
          ret    |-> Quaternion(FDiv(self.l_0, norm), FDiv(self.l_1, norm),
                                FDiv(self.l_2, norm), FDiv(self.l_3, norm)),
          raised |-> "none" ]

Twice(x) == FMul(F(2), x)

\* slip: the sign of the l_3 * l_0 term of the first row
Quaternion_to_rotation_matrix_SignSlip(self) ==
    LET l0 == self.l_0
        l1 == self.l_1
        l2 == self.l_2
        l3 == self.l_3
    IN << << FSub(FSub(F(1), Twice(Sq(l2))), Twice(Sq(l3))),
             FAdd(Twice(FMul(l1, l2)), Twice(FMul(l3, l0))),
             FAdd(Twice(FMul(l1, l3)), Twice(FMul(l2, l0))) >>,
          << FAdd(Twice(FMul(l1, l2)), Twice(FMul(l3, l0))),
             FSub(FSub(F(1), Twice(Sq(l1))), Twice(Sq(l3))),
             FSub(Twice(FMul(l2, l3)), Twice(FMul(l1, l0))) >>,
          << FSub(Twice(FMul(l1, l3)), Twice(FMul(l2, l0))),
             FAdd(Twice(FMul(l2, l3)), Twice(FMul(l1, l0))),
             FSub(FSub(F(1), Twice(Sq(l1))), Twice(Sq(l2))) >> >>

Quaternion_to_rotation_matrix(self) ==
    LET l0 == self.l_0
        l1 == self.l_1
        l2 == self.l_2
        l3 == self.l_3
    IN << << FSub(FSub(F(1), Twice(Sq(l2))), Twice(Sq(l3))),
             FSub(Twice(FMul(l1, l2)), Twice(FMul(l3, l0))),
             FAdd(Twice(FMul(l1, l3)), Twice(FMul(l2, l0))) >>,
          << FAdd(Twice(FMul(l1, l2)), Twice(FMul(l3, l0))),
             FSub(FSub(F(1), Twice(Sq(l1))), Twice(Sq(l3))),
             FSub(Twice(FMul(l2, l3)), Twice(FMul(l1, l0))) >>,
          << FSub(Twice(FMul(l1, l3)), Twice(FMul(l2, l0))),
             FAdd(Twice(FMul(l2, l3)), Twice(FMul(l1, l0))),
             FSub(FSub(F(1), Twice(Sq(l1))), Twice(Sq(l2))) >> >>

\* rot_mat @ v
Quaternion_rotate_vector(self, v) ==
    LET rot_mat == Quaternion_to_rotation_matrix(self)
    IN  [i \in 1..3 |-> NpDot(rot_mat[i], v)]

-----------------------------------------------------------------------------
(* rodrigues_hamilton_rotation *)

rodrigues_hamilton_rotation(h, v, a, theta, d) ==
    LET h1         == [h EXCEPT ![a] = VDiv(h[a], LinalgNorm(h[a]))]
        lambda_0   == NpCos(HalfAngle(theta))
        lambda_vec == VScale(NpSin(HalfAngle(theta)), h1[a])
        q          == Quaternion_normalize(
                          Quaternion(lambda_0, lambda_vec[1],
                                     lambda_vec[2], lambda_vec[3])).ret
        v_rot      == Quaternion_rotate_vector(q, h1[v])
        v_screw    == VAdd(v_rot, VScale(d, h1[a]))
    IN  [heap |-> h1, ret |-> v_screw, raised |-> "none"]

-----------------------------------------------------------------------------
(* Inputs *)

ArrayRefs == {1, 2}

\* the zero vector, unit axes, axes of length 5 and 3, and a vector whose
\* length is irrational (it is never passed as an axis)
ArrayValues ==
    { Vec(0, 0, 0), Vec(0, 0, 1),
      <<Frac(2, 3), Frac(-1, 3), Frac(2, 3)>>,
      Vec(0, 3, 4), Vec(1, 2, 2), Vec(1, -1, 0) }

Disps == {F(k) : k \in -MaxDisp..MaxDisp}

DualValues == {DualNumber(F(r), F(e)) : r \in -MaxDisp..MaxDisp, e \in -MaxDisp..MaxDisp}

DualAngles == {DualNumber(t, e) : t \in Thetas, e \in Disps}

QuatValues ==
    { Quaternion(F(0), F(0), F(0), F(0)), Quaternion(F(1), F(0), F(0), F(0)),
      Quaternion(F(0), F(0), F(0), F(2)), Quaternion(F(1), F(-1), F(1), F(-1)),
      Quaternion(F(1), F(2), F(2), F(4)), Quaternion(F(2), F(-4), F(5), F(6)) }

NoArgs == [v |-> 0, a |-> 0]

-----------------------------------------------------------------------------
(* The state machine: the caller's arrays and, between a call's return and  *)
(* the moment the caller lets go of the result, the call made with its     *)
(* arguments, its result and the state it left.                            *)

Init ==
    /\ arrays \in [ArrayRefs -> ArrayValues]
    /\ orig = arrays
    /\ pre = arrays
    /\ op = "idle"
    /\ args = NoArgs
    /\ ret = <<>>
    /\ raised = "none"
    /\ objs = <<>>

\* v_screw = rodrigues_rotation(v, a, DualNumber(theta, theta_dual))
CallRodriguesRotation ==
    \E v \in ArrayRefs, a \in ArrayRefs, theta \in Thetas, d \in Disps :
        LET r == rodrigues_rotation(arrays, v, a, DualNumber(theta, d))
        IN  /\ op = "idle"
            /\ HasExactSqrt(NpDot(arrays[a], arrays[a]))
            /\ pre' = arrays
            /\ arrays' = r.heap
            /\ op' = "rodrigues_rotation"
            /\ args' = [v |-> v, a |-> a, theta |-> theta, d |-> d]
            /\ ret' = r.ret
            /\ raised' = r.raised
            /\ objs' = <<>>
            /\ UNCHANGED orig

\* v_screw = rodrigues_hamilton_rotation(v, a, theta, d)
CallRodriguesHamiltonRotation ==
    \E v \in ArrayRefs, a \in ArrayRefs, theta \in Thetas, d \in Disps :
        LET r == rodrigues_hamilton_rotation(arrays, v, a, theta, d)
        IN  /\ op = "idle"
            /\ HasExactSqrt(NpDot(arrays[a], arrays[a]))
            /\ pre' = arrays
            /\ arrays' = r.heap
            /\ op' = "rodrigues_hamilton_rotation"
            /\ args' = [v |-> v, a |-> a, theta |-> theta, d |-> d]
            /\ ret' = r.ret
            /\ raised' = r.raised
            /\ objs' = <<>>
            /\ UNCHANGED orig

\* x + y on two DualNumber objects
CallDualAdd ==
    \E x \in DualValues, y \in DualValues :
        LET r == DualNumber_add(x, y)
        IN  /\ op = "idle"
            /\ op' = "DualNumber.__add__"
            /\ args' = [self |-> x, other |-> y]
            /\ ret' = r.ret
            /\ raised' = "none"
            /\ objs' = <<r.self, r.other>>
            /\ pre' = arrays
            /\ UNCHANGED <<arrays, orig>>

\* x * y on two DualNumber objects
CallDualMul ==
    \E x \in DualValues, y \in DualValues :
        LET r == DualNumber_mul(x, y)
        IN  /\ op = "idle"
            /\ op' = "DualNumber.__mul__"
            /\ args' = [self |-> x, other |-> y]
            /\ ret' = r.ret
            /\ raised' = "none"
            /\ objs' = <<r.self, r.other>>
            /\ pre' = arrays
            /\ UNCHANGED <<arrays, orig>>

\* x.sin() and x.cos()
CallDualSin ==
    \E x \in DualAngles :
        LET r == DualNumber_sin(x)
        IN  /\ op = "idle"
            /\ op' = "DualNumber.sin"
            /\ args' = [self |-> x]
            /\ ret' = r.ret
            /\ raised' = "none"
            /\ objs' = <<r.self>>
            /\ pre' = arrays
            /\ UNCHANGED <<arrays, orig>>

CallDualCos ==
    \E x \in DualAngles :
        LET r == DualNumber_cos(x)
        IN  /\ op = "idle"
            /\ op' = "DualNumber.cos"
            /\ args' = [self |-> x]
            /\ ret' = r.ret
            /\ raised' = "none"
            /\ objs' = <<r.self>>
            /\ pre' = arrays
            /\ UNCHANGED <<arrays, orig>>

\* q.normalize()
CallQuaternionNormalize ==
    \E q \in QuatValues :
        LET r == Quaternion_normalize(q)
        IN  /\ op = "idle"
            /\ HasExactSqrt(QuatNormSq(q))
            /\ op' = "Quaternion.normalize"
            /\ args' = [self |-> q]
            /\ ret' = r.ret
            /\ raised' = r.raised
            /\ objs' = <<r.self>>
            /\ pre' = arrays
            /\ UNCHANGED <<arrays, orig>>

\* the caller is done with the result of the call
Return ==
    /\ op # "idle"
    /\ op' = "idle"
    /\ args' = NoArgs
    /\ ret' = <<>>
    /\ raised' = "none"
    /\ objs' = <<>>
    /\ pre' = arrays
    /\ UNCHANGED <<arrays, orig>>

Next ==
    \/ CallRodriguesRotation
    \/ CallRodriguesHamiltonRotation
    \/ Return

\* the two rotators, called on the caller's arrays
Spec == Init /\ [][Next]_vars

\* The two algebras on their own: their methods touch no array.
AlgebraInit ==
    /\ arrays = [r \in ArrayRefs |-> Vec(0, 0, 1)]
    /\ orig = arrays
    /\ pre = arrays
    /\ op = "idle"
    /\ args = NoArgs
    /\ ret = <<>>
    /\ raised = "none"
    /\ objs = <<>>

AlgebraNext ==
    \/ CallDualAdd
    \/ CallDualMul
    \/ CallDualSin
    \/ CallDualCos
    \/ CallQuaternionNormalize
    \/ Return

AlgebraSpec == AlgebraInit /\ [][AlgebraNext]_vars

-----------------------------------------------------------------------------
(* Properties *)

Zero == Vec(0, 0, 0)

IsRotator == op \in {"rodrigues_rotation", "rodrigues_hamilton_rotation"}

IsUnit(u) == NpDot(u, u) = F(1)

\* an array of real numbers: no NaN, no Inf
IsReal(u) == \A i \in 1..3 : IsFin(u[i])

\* the axis and the vector the caller passed, as they were at the call
AxisIn == pre[args.a]

VIn == pre[args.v]

\* the axis the rotation is about
UnitAxis == VDiv(AxisIn, LinalgNorm(AxisIn))

\* |x - y| <= 1e-9
Close(x, y) ==
    LET e == FSub(x, y)
    IN  IsFin(e) /\ Abs(e[1]) <= e[2] \div 1000000000

\* the rotator named f called on heap h
Rotate(f, h, v, a, theta, d) ==
    IF f = "rodrigues_rotation"
    THEN rodrigues_rotation(h, v, a, DualNumber(theta, d))
    ELSE rodrigues_hamilton_rotation(h, v, a, theta, d)

OtherRotator ==
    IF op = "rodrigues_rotation"
    THEN "rodrigues_hamilton_rotation" ELSE "rodrigues_rotation"

\* the call is a case where every term of the formulas is at work: a rotation
\* by an angle with nonzero sine and cosine about an axis that v is neither
\* along nor across, with a displacement
GenericCall ==
    /\ IsRotator
    /\ AxisIn # Zero
    /\ IsReal(AxisIn)
    /\ IsReal(VIn)
    /\ args.theta[1] \in {2, 3, 5}
    /\ args.d # F(0)
    /\ NpCross(UnitAxis, VIn) # Zero
    /\ NpDot(UnitAxis, VIn) # F(0)

\* C1: for a unit axis and a real vector, the dual Rodrigues rotator and the Rodrigues-Hamilton
\* rotator return the same vector, component by component within 1e-9: the
\* result of a call of either agrees with what the other returns for the
\* same arguments.
C1_CrossPipelineEquivalence ==
    (IsRotator /\ IsUnit(AxisIn) /\ IsReal(VIn)) =>
        LET other == Rotate(OtherRotator, pre, args.v, args.a, args.theta, args.d).ret
        IN  \A i \in 1..3 : Close(ret[i], other[i])

C1_Witness ==
    /\ GenericCall
    /\ op = "rodrigues_hamilton_rotation"
    /\ IsUnit(AxisIn)
    /\ AxisIn # Vec(0, 0, 1)
    /\ ret # VIn

\* C2: neither rotator changes the arrays the caller passes: after a call
\* with a nonzero axis, the caller's arrays hold what they held before.
C2_CallerArraysUnchanged ==
    (IsRotator /\ AxisIn # Zero /\ IsReal(AxisIn) /\ IsReal(VIn)) => arrays = pre

\* C3: with the zero vector as axis, either rotator fails with InvalidAxis
\* and returns no vector.
C3_ZeroAxisFails ==
    (IsRotator /\ AxisIn = Zero) => (raised = "InvalidAxis" /\ ret = <<>>)

\* C4: calls are independent: the result of every call in a sequence of
\* calls on shared arrays (none of them zero) is the result of that call
\* run alone on the original arrays.
C4_CallsIndependent ==
    (IsRotator /\ \A r \in ArrayRefs : orig[r] # Zero) =>
        ret = Rotate(op, orig, args.v, args.a, args.theta, args.d).ret

\* C5: pure translation: with angle 0 and a unit axis a, both rotators
\* return v + d*a (v itself when d = 0).
C5_PureTranslation ==
    (IsRotator /\ args.theta = <<1, 1>> /\ IsUnit(AxisIn)) =>
        ret = VAdd(VIn, VScale(args.d, AxisIn))

C5_Witness ==
    /\ IsRotator
    /\ args.theta = <<1, 1>>
    /\ IsUnit(AxisIn)
    /\ args.d # F(0)
    /\ NpDot(AxisIn, VIn) # F(0)
    /\ NpCross(AxisIn, VIn) # Zero
    /\ ret # VIn

\* C6: axial postcondition of the dual Rodrigues rotator: for a nonzero
\* axis, the component of the result along the normalized axis a is
\* (a . v) + angle.dual.
C6_AxialPostcondition ==
    (op = "rodrigues_rotation" /\ AxisIn # Zero /\ IsReal(AxisIn) /\ IsReal(VIn)) =>
        NpDot(UnitAxis, ret) = FAdd(NpDot(UnitAxis, VIn), args.d)

\* C7: Quaternion.normalize fails with DegenerateQuaternion when the norm is
\* zero; otherwise it returns a quaternion of norm 1 without NaN or Inf and
\* leaves the receiver as it was.
C7_NormalizeContract ==
    (op = "Quaternion.normalize") =>
        IF QuatNormSq(args.self) = F(0)
        THEN raised = "DegenerateQuaternion"
        ELSE /\ raised = "none"
             /\ QuatNormSq(ret) = F(1)
             /\ IsFin(ret.l_0) /\ IsFin(ret.l_1) /\ IsFin(ret.l_2) /\ IsFin(ret.l_3)
             /\ objs = <<args.self>>

\* C8: the product of dual numbers x and y has real part x.real*y.real and
\* dual part x.real*y.dual + x.dual*y.real, with no x.dual*y.dual term, so
\* that (0,1)*(0,1) = (0,0); neither operand is changed.
C8_DualMulNilpotent ==
    (op = "DualNumber.__mul__") =>
        LET xr == args.self.real[1]
            xd == args.self.dual[1]
            yr == args.other.real[1]
            yd == args.other.dual[1]
        IN  /\ ret = DualNumber(F(xr * yr), F(xr * yd + xd * yr))
            /\ (xr = 0 /\ yr = 0) => ret = DualNumber(F(0), F(0))
            /\ objs = <<args.self, args.other>>

C8_Witness ==
    /\ op = "DualNumber.__mul__"
    /\ args.self = DualNumber(F(0), F(1))
    /\ args.other = DualNumber(F(0), F(1))
    /\ ret = DualNumber(F(0), F(0))

\* C9: in the dual Rodrigues rotator only the real part of the angle drives
\* the rotation: the result for DualNumber(theta, d) is the result for
\* DualNumber(theta, 0) plus d times the normalized axis.
C9_DualPartOnlyTranslates ==
    (op = "rodrigues_rotation") =>
        ret = VAdd(rodrigues_rotation(pre, args.v, args.a,
                                      DualNumber(args.theta, F(0))).ret,
                   VScale(args.d, UnitAxis))

C9_Witness ==
    /\ GenericCall
    /\ op = "rodrigues_rotation"
    /\ ~IsUnit(AxisIn)

\* the factors an axis is scaled by
Scales == {F(2), F(3), Frac(1, 2)}

\* C10: the result of either rotator depends on the direction of the axis
\* only: for a nonzero axis a and a scale k > 0, the call with axis k*a and
\* the same v, angle and displacement returns the same vector, and the
\* displacement added has length |d|.
C10_AxisScaleInvariance ==
    (IsRotator /\ AxisIn # Zero /\ IsReal(AxisIn) /\ IsReal(VIn)) =>
        /\ \A k \in Scales :
              ret = Rotate(op, <<VIn, VScale(k, AxisIn)>>, 1, 2,
                           args.theta, args.d).ret
        /\ LET moved == VSub(ret, Rotate(op, pre, args.v, args.a,
                                         args.theta, F(0)).ret)
           IN  NpDot(moved, moved) = Sq(args.d)

=============================================================================
